---- MODULE Spec2Model ----
(***************************************************************************)
(* Model of the Bandcamp MCP server: src/src/bandcamp_client.py (the       *)
(* BandcampClient extraction layer) and src/src/server_remote.py (the      *)
(* call_tool handler that formats the client's records as text).           *)
(*                                                                         *)
(* Text is a sequence of tokens (a token is a character or an atomic word, *)
(* " " is whitespace).  Python values carry their type in the field t, so  *)
(* that a str, a list, a number, None and a dict can stand in the same     *)
(* place, as they can in a parsed JSON document.                           *)
(***************************************************************************)
EXTENDS Integers, Sequences, FiniteSets, TLC

\* ------------------------------------------------------------------ bounds
\* Number of invocation slots of the server (tool calls it can hold).
MaxInv == 2
\* Largest number of item blocks on a listing page.
MaxItems == 2

\* ----------------------------------------------------------- python values
Str(s) == [t |-> "str", v |-> s]
Num(n) == [t |-> "num", v |-> n]
List(s) == [t |-> "list", v |-> s]
Dict(f) == [t |-> "dict", v |-> f]
None == [t |-> "none", v |-> 0]

EmptyDict == [k \in {} |-> None]

\* bool(x) of Python
Truthy(x) ==
    CASE x.t = "str" -> Len(x.v) > 0
      [] x.t = "num" -> x.v # 0
      [] x.t = "list" -> Len(x.v) > 0
      [] x.t = "dict" -> DOMAIN x.v # {}
      [] OTHER -> FALSE

\* d.get(k, default) on the mapping d
Get(d, k, default) == IF k \in DOMAIN d THEN d[k] ELSE default

\* d[k] = v on the mapping d
Put(d, k, v) == (k :> v) @@ d

Without(d, k) == [x \in DOMAIN d \ {k} |-> d[x]]

\* -------------------------------------------------------------------- text
IsSpace(c) == c = " "

RECURSIVE LStrip(_)
LStrip(s) == IF s # <<>> /\ IsSpace(Head(s)) THEN LStrip(Tail(s)) ELSE s

RECURSIVE RStrip(_)
RStrip(s) ==
    IF s # <<>> /\ IsSpace(s[Len(s)]) THEN RStrip(SubSeq(s, 1, Len(s) - 1)) ELSE s

\* str.strip(), as applied by get_text(strip=True) to an element's one text node
Strip(s) == RStrip(LStrip(s))


\* ------------------------------------------------------- parsed documents
\* An element found by a selector: its text node and its attributes.
Elem(txt, at) == [e |-> TRUE, text |-> txt, attrs |-> at]
\* select_one() found nothing
NoAttrs == [k \in {} |-> <<>>]
NoElem == [e |-> FALSE, text |-> <<>>, attrs |-> NoAttrs]

\* element.get_text(strip=True)
get_text(el) == Strip(el.text)

\* element.get(name, "")
attr(el, name) == IF name \in DOMAIN el.attrs THEN el.attrs[name] ELSE <<>>

\* The script[type="application/ld+json"] element of a page:
\* kind "absent"  no such element,  "empty"  an element without content
\* (its .string is None),  "invalid"  content that is no JSON text,
\* "json"  content that is the JSON text of value.
Script(kind, value) == [kind |-> kind, value |-> value]

\* ------------------------------------------------------------- exceptions
Ok(rec) == [exc |-> "none", rec |-> rec]
Raise(e) == [exc |-> e, rec |-> EmptyDict]

\* json.loads(json_ld.string)
json_loads(script) ==
    CASE script.kind = "empty" -> [exc |-> "TypeError", val |-> None]
      [] script.kind = "invalid" -> [exc |-> "JSONDecodeError", val |-> None]
      [] OTHER -> [exc |-> "none", val |-> script.value]

\* except (json.JSONDecodeError, KeyError)
CaughtByParse == {"JSONDecodeError", "KeyError"}

\* The values a for loop over x visits; only list, str and dict iterate.
Iterable(x) == x.t \in {"list", "str", "dict"}

RECURSIVE KeySeq(_)
KeySeq(ks) ==
    IF ks = {} THEN <<>>
    ELSE LET k == CHOOSE k \in ks : TRUE IN <<Str(<<k>>)>> \o KeySeq(ks \ {k})

IterElems(x) ==
    CASE x.t = "list" -> x.v
      [] x.t = "str" -> [j \in 1..Len(x.v) |-> Str(<<x.v[j]>>)]
      [] OTHER -> KeySeq(DOMAIN x.v)

\* ---------------------------------------------------------------- get_album
\* One entry of album["tracks"], from the list element t (a dict whose item
\* is a dict).
TrackEntry(t) ==
    LET track_item == Get(t.v, "item", Dict(EmptyDict))
    IN Dict([position |-> Get(t.v, "position", Num(0)),
             title |-> Get(track_item.v, "name", Str(<<>>)),
             duration |-> Get(track_item.v, "duration", Str(<<>>)),
             url |-> Get(track_item.v, "@id", Str(<<>>))])

\* t.get("item", {}).get(...) raises AttributeError unless both are dicts
TrackElemBad(t) ==
    \/ t.t # "dict"
    \/ Get(t.v, "item", Dict(EmptyDict)).t # "dict"

\* if offers: album["price"] = ...; album["currency"] = ...
AlbumOffers(album, offers) ==
    IF Truthy(offers)
    THEN Put(Put(album, "price", Get(offers.v, "price", Str(<<>>))),
             "currency", Get(offers.v, "priceCurrency", Str(<<>>)))
    ELSE album

\* if publisher: album["label"] = ...; album["label_url"] = ...
AlbumPublisher(album, publisher) ==
    IF Truthy(publisher)
    THEN Put(Put(album, "label", Get(publisher.v, "name", Str(<<>>))),
             "label_url", Get(publisher.v, "@id", Str(<<>>)))
    ELSE album

\* The numeric field of the album taken from the structured data.
AlbumNumTracks(album, data) == Put(album, "num_tracks", Get(data, "numTracks", Num(0)))

\* The body of "if isinstance(data, dict):" in get_album; data is the mapping.
AlbumFromLd(album, data) ==
    LET byArtist == Get(data, "byArtist", Dict(EmptyDict))
        trackv == Get(data, "track", Dict(EmptyDict))
        offers == Get(data, "offers", Dict(EmptyDict))
        publisher == Get(data, "publisher", Dict(EmptyDict))
    IN IF byArtist.t # "dict" THEN Raise("AttributeError")
       ELSE IF trackv.t # "dict" THEN Raise("AttributeError")
       ELSE LET tracks == Get(trackv.v, "itemListElement", List(<<>>))
            IN IF ~Iterable(tracks) THEN Raise("TypeError")
               ELSE LET elems == IterElems(tracks)
                    IN IF \E j \in 1..Len(elems) : TrackElemBad(elems[j])
                       THEN Raise("AttributeError")
                       ELSE IF Truthy(offers) /\ offers.t # "dict"
                       THEN Raise("AttributeError")
                       ELSE IF Truthy(publisher) /\ publisher.t # "dict"
                       THEN Raise("AttributeError")
                       ELSE LET a1 == [title |-> Get(data, "name", Str(<<>>)),
                                       artist |-> Get(byArtist.v, "name", Str(<<>>)),
                                       description |-> Get(data, "description", Str(<<>>)),
                                       release_date |-> Get(data, "datePublished", Str(<<>>)),
                                       image |-> Get(data, "image", Str(<<>>)),
                                       tracks |-> List([j \in 1..Len(elems) |->
                                                           TrackEntry(elems[j])])]
                                        @@ album
                                a2 == AlbumNumTracks(a1, data)
                            IN Ok(AlbumPublisher(AlbumOffers(a2, offers), publisher))

\* try: ... except (json.JSONDecodeError, KeyError): an exception of the
\* block that the handler names leaves the record as it was before the block
\* (nothing is assigned before the calls that can raise one); any other
\* leaves the operation.
Absorb(r, rec) ==
    IF r.exc = "none" THEN r
    ELSE IF r.exc \in CaughtByParse THEN Ok(rec) ELSE Raise(r.exc)

\* The "if json_ld: try: ... except ..." block of get_album.
AlbumLd(album, script) ==
    IF script.kind = "absent" THEN Ok(album)
    ELSE LET loaded == json_loads(script)
         IN IF loaded.exc # "none" THEN Absorb(Raise(loaded.exc), album)
            ELSE IF loaded.val.t = "dict"
                 THEN Absorb(AlbumFromLd(album, loaded.val.v), album)
                 ELSE Ok(album)

\* The selector's value written over whatever the structured data gave.
FallbackAlways(rec, field, el) ==
    IF el.e THEN Put(rec, field, Str(get_text(el))) ELSE rec

\* if not rec.get(field): elem = select_one(...); if elem: rec[field] = text
Fallback(rec, field, el) ==
    IF ~Truthy(Get(rec, field, None)) /\ el.e
    THEN Put(rec, field, Str(get_text(el)))
    ELSE rec

\* el = select_one(...); if el: rec[field] = el.get_text(strip=True)
TextField(rec, field, el) == IF el.e THEN Put(rec, field, Str(get_text(el))) ELSE rec

\* [t.get_text(strip=True) for t in tags]
TagList(tags) == List([j \in 1..Len(tags) |-> Str(get_text(tags[j]))])

\* A record that starts without the url of the call.
NewRecordBare(url) == EmptyDict

\* album = {"url": url}
NewRecord(url) == "url" :> Str(url)

\* get_album(url) on the fetched page
get_album(url, page) ==
    LET ld == AlbumLd(NewRecord(url), page.ld)
    IN IF ld.exc # "none" THEN ld
       ELSE LET a1 == Fallback(ld.rec, "title", page.title)
                a2 == Fallback(a1, "artist", page.artist)
                a3 == Put(a2, "tags", TagList(page.tags))
                a4 == TextField(a3, "about", page.about)
            IN Ok(TextField(a4, "credits", page.credits))

\* ---------------------------------------------------------------- get_track
\* if in_album: track["album"] = ...; track["album_url"] = ...
TrackInAlbum(track, in_album) ==
    IF Truthy(in_album)
    THEN Put(Put(track, "album", Get(in_album.v, "name", Str(<<>>))),
             "album_url", Get(in_album.v, "@id", Str(<<>>)))
    ELSE track

\* The body of "if isinstance(data, dict):" in get_track.
TrackFromLd(track, data) ==
    LET byArtist == Get(data, "byArtist", Dict(EmptyDict))
        in_album == Get(data, "inAlbum", Dict(EmptyDict))
        offers == Get(data, "offers", Dict(EmptyDict))
    IN IF byArtist.t # "dict" THEN Raise("AttributeError")
       ELSE IF Truthy(in_album) /\ in_album.t # "dict" THEN Raise("AttributeError")
       ELSE IF Truthy(offers) /\ offers.t # "dict" THEN Raise("AttributeError")
       ELSE LET t1 == [title |-> Get(data, "name", Str(<<>>)),
                       artist |-> Get(byArtist.v, "name", Str(<<>>)),
                       duration |-> Get(data, "duration", Str(<<>>)),
                       description |-> Get(data, "description", Str(<<>>)),
                       release_date |-> Get(data, "datePublished", Str(<<>>)),
                       image |-> Get(data, "image", Str(<<>>))]
                        @@ track
            IN Ok(AlbumOffers(TrackInAlbum(t1, in_album), offers))

\* The "if json_ld: try: ... except ..." block of get_track.
TrackLd(track, script) ==
    IF script.kind = "absent" THEN Ok(track)
    ELSE LET loaded == json_loads(script)
         IN IF loaded.exc # "none" THEN Absorb(Raise(loaded.exc), track)
            ELSE IF loaded.val.t = "dict"
                 THEN Absorb(TrackFromLd(track, loaded.val.v), track)
                 ELSE Ok(track)

\* get_track(url) on the fetched page
get_track(url, page) ==
    LET ld == TrackLd(NewRecord(url), page.ld)
    IN IF ld.exc # "none" THEN ld
       ELSE LET t1 == Put(ld.rec, "tags", TagList(page.tags))
            IN Ok(TextField(t1, "lyrics", page.lyrics))

\* ------------------------------------------------------------ text helpers
\* s.startswith(pat)
StartsWith(s, pat) == Len(s) >= Len(pat) /\ SubSeq(s, 1, Len(pat)) = pat

\* s.replace(pat, rep): every non-overlapping occurrence, leftmost first
RECURSIVE Replace(_, _, _)
Replace(s, pat, rep) ==
    IF s = <<>> THEN <<>>
    ELSE IF StartsWith(s, pat)
         THEN rep \o Replace(SubSeq(s, Len(pat) + 1, Len(s)), pat, rep)
         ELSE <<Head(s)>> \o Replace(Tail(s), pat, rep)

\* c.lower() of one token
LowerTok(c) ==
    CASE c = "ALBUM" -> "album"
      [] c = "ARTIST" -> "artist"
      [] c = "TRACK" -> "track"
      [] OTHER -> c

\* s.lower()
Lower(s) == [j \in 1..Len(s) |-> LowerTok(s[j])]

\* quote_plus of one token: a space becomes "+", a URL delimiter is
\* percent-encoded, letters and digits stay.
QuoteTok(c) ==
    CASE c = " " -> "+"
      [] c = "&" -> "%26"
      [] c = "=" -> "%3D"
      [] c = "?" -> "%3F"
      [] c = "/" -> "%2F"
      [] OTHER -> c

\* urllib.parse.quote_plus(s)
quote_plus(s) == [j \in 1..Len(s) |-> QuoteTok(s[j])]

\* "sep".join(parts)
RECURSIVE Join(_, _)
Join(parts, sep) ==
    IF parts = <<>> THEN <<>>
    ELSE IF Len(parts) = 1 THEN parts[1]
    ELSE parts[1] \o <<sep>> \o Join(Tail(parts), sep)

\* A URL is text whose first token is its origin (scheme and host).
BANDCAMP_BASE == "https://bandcamp.com"
Origins == {BANDCAMP_BASE, "https://a.bandcamp.com", "https://b.bandcamp.com"}

\* urllib.parse.urljoin(base, href) for an empty href, an absolute URL and
\* an absolute path (a token that starts a path, "/...")
urljoin(base, href) ==
    IF href = <<>> THEN base
    ELSE IF Head(href) \in Origins THEN href
    ELSE <<Head(base)>> \o href

\* ---------------------------------------------------------- query builder
type_map == [all |-> <<>>, album |-> <<"a">>, artist |-> <<"b">>,
             track |-> <<"t">>, label |-> <<"b">>, fan |-> <<"f">>]

\* type_map.get(item_type, item_type): an unknown type passed through.
SearchTypePassThrough(item_type) ==
    IF item_type \in DOMAIN type_map THEN type_map[item_type] ELSE <<item_type>>

\* type_map.get(item_type, "")
SearchType(item_type) == IF item_type \in DOMAIN type_map THEN type_map[item_type] ELSE <<>>

\* The URL search() fetches.
SearchUrl(query, item_type, page) ==
    LET search_type == SearchType(item_type)
        url == <<BANDCAMP_BASE, "/search", "?", "q", "=">> \o quote_plus(query)
                 \o <<"&", "page", "=", ToString(page)>>
    IN IF search_type # <<>> THEN url \o <<"&", "item_type", "=">> \o search_type ELSE url

\* A tag URL that leaves out a sort it does not know.
TagUrlKnownSortOnly(tag, sort, page) ==
    <<BANDCAMP_BASE, "/tag/">> \o quote_plus(tag) \o <<"?">>
        \o (IF sort \in {<<"pop">>, <<"new">>, <<"rec">>}
            THEN <<"sort_field", "=">> \o sort \o <<"&">> ELSE <<>>)
        \o <<"page", "=", ToString(page)>>

\* The URL get_tag_page() fetches.
TagUrl(tag, sort, page) ==
    <<BANDCAMP_BASE, "/tag/">> \o quote_plus(tag) \o <<"?", "sort_field", "=">> \o sort
        \o <<"&", "page", "=", ToString(page)>>

\* The sort parameter left out for the default "top" as well.
DiscoverSortParamNonDefault(sort) ==
    IF sort \notin {<<>>, <<"top">>} THEN << <<"sort", "=">> \o sort >> ELSE <<>>

\* if sort: params.append(f"sort={sort}")
DiscoverSortParam(sort) == IF sort # <<>> THEN << <<"sort", "=">> \o sort >> ELSE <<>>

\* The params list discover() builds.
DiscoverParams(genre, subgenre, sort, format, location) ==
    (IF genre # <<>> THEN << <<"g", "=">> \o quote_plus(genre) >> ELSE <<>>)
    \o (IF subgenre # <<>> THEN << <<"s", "=">> \o quote_plus(subgenre) >> ELSE <<>>)
    \o DiscoverSortParam(sort)
    \o (IF format # <<"all">> THEN << <<"f", "=">> \o format >> ELSE <<>>)
    \o (IF location # 0 THEN << <<"l", "=", ToString(location)>> >> ELSE <<>>)

\* The URL discover() fetches.
DiscoverUrl(genre, subgenre, sort, format, location) ==
    LET params == DiscoverParams(genre, subgenre, sort, format, location)
    IN IF params # <<>>
       THEN <<BANDCAMP_BASE, "/discover", "?">> \o Join(params, "&")
       ELSE <<BANDCAMP_BASE, "/discover">>

\* ----------------------------------------------------------------- listings
\* A test for the key alone: an empty title passes it.
HasTitleKey(r) == "title" \in DOMAIN r

\* if record.get("title"): the test every listing applies before append
HasTitle(r) == Truthy(Get(r, "title", None))

\* The entries the loop appends: those with a title, in document order.
KeepTitled(built) ==
    LET kept == SelectSeq(built, HasTitle)
    IN [j \in 1..Len(kept) |-> Dict(kept[j])]

\* link = item.select_one("a"); if link: album["url"] = link.get("href", "")
HrefField(rec, el) == IF el.e THEN Put(rec, "url", Str(attr(el, "href"))) ELSE rec

\* img.get("src", "") or img.get("data-original", "")
SrcOrLazy(img) == IF attr(img, "src") # <<>> THEN attr(img, "src") ELSE attr(img, "data-original")

\* if img: album["image"] = img.get("src", "") or img.get("data-original", "")
ImageField(rec, img) == IF img.e THEN Put(rec, "image", Str(SrcOrLazy(img))) ELSE rec

\* if img: result["image"] = img.get("src", "")
SearchImageField(rec, img) == IF img.e THEN Put(rec, "image", Str(attr(img, "src"))) ELSE rec

\* One pass of the loop of search() over a .searchresult block.
SearchResult(item) ==
    LET r1 == "type" :> Str(IF item.itemtype.e THEN Lower(get_text(item.itemtype))
                            ELSE <<"unknown">>)
        r2 == IF item.heading.e
              THEN Put(Put(r1, "title", Str(get_text(item.heading))),
                       "url", Str(attr(item.heading, "href")))
              ELSE r1
        r3 == TextField(r2, "subhead", item.subhead)
        r4 == SearchImageField(r3, item.img)
        r5 == Put(r4, "tags", TagList(item.tags))
        r6 == IF item.released.e
              THEN Put(r5, "released",
                       Str(Replace(get_text(item.released), <<"released", " ">>, <<>>)))
              ELSE r5
    IN IF item.genre.e
       THEN Put(r6, "genre", Str(Replace(get_text(item.genre), <<"genre:", " ">>, <<>>)))
       ELSE r6

\* search with pagination.items counting the item blocks of the page.
searchCountingBlocks(query, item_type, page, doc) ==
    LET built == [j \in 1..Len(doc.items) |-> SearchResult(doc.items[j])]
        results == KeepTitled(built)
    IN Ok([results |-> List(results),
           pagination |-> Dict([page |-> Num(page), items |-> Num(Len(doc.items))])])

\* search(query, item_type, page) on the fetched page
search(query, item_type, page, doc) ==
    LET built == [j \in 1..Len(doc.items) |-> SearchResult(doc.items[j])]
        results == KeepTitled(built)
    IN Ok([results |-> List(results),
           pagination |-> Dict([page |-> Num(page), items |-> Num(Len(results))])])

\* One pass of the loop of get_artist() over a .music-grid-item block.
GridItem(url, item) ==
    LET a1 == IF item.link.e
              THEN "url" :> Str(urljoin(url, attr(item.link, "href")))
              ELSE EmptyDict
        a2 == TextField(a1, "title", item.title)
    IN ImageField(a2, item.img)

\* One entry of artist["links"].
LinkEntry(link) == Dict([name |-> Str(get_text(link)), url |-> Str(attr(link, "href"))])

\* get_artist(url) on the fetched page
get_artist(url, doc) ==
    LET a1 == TextField(NewRecord(url), "name", doc.name)
        a2 == TextField(a1, "location", doc.location)
        a3 == TextField(a2, "bio", doc.bio)
        built == [j \in 1..Len(doc.items) |-> GridItem(url, doc.items[j])]
        a4 == Put(a3, "discography", List(KeepTitled(built)))
    IN Ok(Put(a4, "links", List([j \in 1..Len(doc.links) |-> LinkEntry(doc.links[j])])))

\* One pass of the loop of get_tag_page() over a .item_list .item block.
TagItem(item) ==
    LET a1 == HrefField(EmptyDict, item.link)
        a2 == TextField(a1, "title", item.title)
        a3 == TextField(a2, "artist", item.artist)
    IN ImageField(a3, item.img)

\* get_tag_page(tag, sort, page) on the fetched page
get_tag_page(tag, sort, page, doc) ==
    LET built == [j \in 1..Len(doc.items) |-> TagItem(doc.items[j])]
    IN Ok([tag |-> Str(tag), sort |-> Str(sort), page |-> Num(page),
           albums |-> List(KeepTitled(built))])

\* One pass of the loop of discover() over a .discover-item block.
DiscoverItem(item) ==
    LET a1 == HrefField(EmptyDict, item.link)
        a2 == TextField(a1, "title", item.title)
        a3 == TextField(a2, "artist", item.artist)
        a4 == ImageField(a3, item.img)
    IN TextField(a4, "genre", item.genre)

\* discover(genre, subgenre, sort, format, location) on the fetched page
discover(genre, subgenre, sort, doc) ==
    LET built == [j \in 1..Len(doc.items) |-> DiscoverItem(doc.items[j])]
    IN Ok([genre |-> Str(genre), subgenre |-> Str(subgenre), sort |-> Str(sort),
           albums |-> List(KeepTitled(built))])

\* ------------------------------------------------------------- call_tool
\* Truncation limits and list limits of the formatter.
AboutLimit == 500
CreditsLimit == 300
BioLimit == 800
LyricsLimit == 1000
DescriptionLimit == 500
SearchTagLimit == 5
DiscographyLimit == 20

\* s[:n]
Take(s, n) == SubSeq(s, 1, IF Len(s) < n THEN Len(s) ELSE n)

\* str(x), as an f-string renders a value
ToText(x) ==
    CASE x.t = "str" -> x.v
      [] x.t = "num" -> <<ToString(x.v)>>
      [] x.t = "none" -> <<"None">>
      [] x.t = "list" -> <<"[", "]">>
      [] OTHER -> <<"{", "}">>

\* c.title() of one token
TitleTok(c) ==
    CASE c = "album" -> "Album"
      [] c = "artist" -> "Artist"
      [] c = "track" -> "Track"
      [] c = "unknown" -> "Unknown"
      [] OTHER -> c

\* s.title()
Title(s) == [j \in 1..Len(s) |-> TitleTok(s[j])]

\* ", ".join(texts) for a list of str values
JoinTexts(vals) == Join([j \in 1..Len(vals) |-> vals[j].v], ", ")

RECURSIVE Flatten(_)
Flatten(ss) == IF ss = <<>> THEN <<>> ELSE Head(ss) \o Flatten(Tail(ss))

\* The lines a formatter emits, or the exception it raised.
Lines(ls) == [exc |-> "none", lines |-> ls]
FormatRaise(e) == [exc |-> e, lines |-> <<>>]

\* The "..." appended when the stored text is longer than the limit.
Ellipsis(text, limit) == IF Len(text) > limit THEN <<"...">> ELSE <<>>

\* text[:limit] followed by "..." when len(text) > limit
Truncated(text, limit) == Take(text, limit) \o Ellipsis(text, limit)

\* The lines of one search result (server_remote.py 186-201).
SearchItemLines(item) ==
    << <<"[">> \o Title(Get(item, "type", Str(<<"unknown">>)).v) \o <<"] ">>
         \o ToText(Get(item, "title", Str(<<"Unknown">>))) >>
    \o (IF Truthy(Get(item, "subhead", None))
        THEN << <<"  by ">> \o item["subhead"].v >> ELSE <<>>)
    \o (IF Truthy(Get(item, "genre", None))
        THEN << <<"  Genre: ">> \o item["genre"].v >> ELSE <<>>)
    \o (IF Truthy(Get(item, "released", None))
        THEN << <<"  Released: ">> \o item["released"].v >> ELSE <<>>)
    \o (IF Truthy(Get(item, "tags", None))
        THEN << <<"  Tags: ">> \o JoinTexts(Take(item["tags"].v, SearchTagLimit)) >>
        ELSE <<>>)
    \o << <<"  URL: ">> \o ToText(Get(item, "url", Str(<<>>))), <<>> >>

\* The bandcamp_search branch of call_tool, after the client returned.
FormatSearch(results) ==
    LET items == Get(results, "results", List(<<>>)).v
        pagination == Get(results, "pagination", Dict(EmptyDict)).v
    IN IF items = <<>> THEN Lines(<< <<"No results found.">> >>)
       ELSE Lines(<< <<"Found ", ToString(Len(items)), " results (page ">>
                       \o ToText(Get(pagination, "page", Num(1))) \o <<"):\n">> >>
                  \o Flatten([j \in 1..Len(items) |-> SearchItemLines(items[j].v)]))

\* The duration shown as it is stored.
DisplayDurationVerbatim(duration) == duration

\* duration.replace("P", "").replace("T", "").replace("M", ":").replace("S", "")
DisplayDuration(duration) ==
    Replace(Replace(Replace(Replace(duration, <<"P">>, <<>>), <<"T">>, <<>>),
                    <<"M">>, <<":">>), <<"S">>, <<>>)

\* One line of the tracklist (server_remote.py 226-234); the track's duration
\* is a str or falsy.
TrackLine(track) ==
    LET duration == Get(track, "duration", Str(<<>>))
        shown == IF Truthy(duration) THEN DisplayDuration(duration.v) ELSE <<>>
    IN <<"  ">> \o ToText(Get(track, "position", Str(<<>>))) \o <<". ">>
         \o ToText(Get(track, "title", Str(<<>>)))
         \o (IF shown # <<>> THEN <<" (">> \o shown \o <<")">> ELSE <<>>)

\* price_str of the album and track branches
PriceLine(rec) ==
    <<"Price: ">> \o (IF Truthy(Get(rec, "currency", None))
                      THEN ToText(rec["currency"]) \o <<" ">> \o ToText(rec["price"])
                      ELSE ToText(rec["price"]))

\* The bandcamp_get_album branch of call_tool, after the client returned.
FormatAlbum(album) ==
    LET tracks == Get(album, "tracks", None)
    IN IF Truthy(tracks)
          /\ \E j \in 1..Len(tracks.v) :
                LET d == Get(tracks.v[j].v, "duration", Str(<<>>))
                IN Truthy(d) /\ d.t # "str"
       THEN FormatRaise("AttributeError")
       ELSE Lines(
         << <<"Album: ">> \o ToText(Get(album, "title", Str(<<"Unknown">>))),
            <<"Artist: ">> \o ToText(Get(album, "artist", Str(<<"Unknown">>))) >>
         \o (IF Truthy(Get(album, "label", None))
             THEN << <<"Label: ">> \o ToText(album["label"]) >> ELSE <<>>)
         \o (IF Truthy(Get(album, "release_date", None))
             THEN << <<"Released: ">> \o ToText(album["release_date"]) >> ELSE <<>>)
         \o (IF Truthy(Get(album, "price", None)) THEN <<PriceLine(album)>> ELSE <<>>)
         \o (IF Truthy(Get(album, "tags", None))
             THEN << <<"Tags: ">> \o JoinTexts(album["tags"].v) >> ELSE <<>>)
         \o (IF Truthy(tracks)
             THEN << <<"\nTracklist (", ToString(Len(tracks.v)), " tracks):">> >>
                  \o [j \in 1..Len(tracks.v) |-> TrackLine(tracks.v[j].v)]
             ELSE <<>>)
         \o (IF Truthy(Get(album, "about", None))
             THEN << <<"\nAbout:\n">> \o Truncated(album["about"].v, AboutLimit) >>
             ELSE <<>>)
         \o (IF Truthy(Get(album, "credits", None))
             THEN << <<"\nCredits:\n">> \o Truncated(album["credits"].v, CreditsLimit) >>
             ELSE <<>>)
         \o << <<"\nURL: ">> \o ToText(Get(album, "url", Str(<<>>))) >>)

\* The two lines of one release of the discography.
ReleaseLines(release) ==
    << <<"  - ">> \o ToText(Get(release, "title", Str(<<"Unknown">>))),
       <<"    ">> \o ToText(Get(release, "url", Str(<<>>))) >>

\* The bandcamp_get_artist branch of call_tool, after the client returned.
FormatArtist(artist) ==
    LET disco == Get(artist, "discography", None)
        links == Get(artist, "links", None)
    IN Lines(
         << <<"Artist: ">> \o ToText(Get(artist, "name", Str(<<"Unknown">>))) >>
         \o (IF Truthy(Get(artist, "location", None))
             THEN << <<"Location: ">> \o ToText(artist["location"]) >> ELSE <<>>)
         \o (IF Truthy(Get(artist, "bio", None))
             THEN << <<"\nBio:\n">> \o Truncated(artist["bio"].v, BioLimit) >> ELSE <<>>)
         \o (IF Truthy(disco)
             THEN << <<"\nDiscography (", ToString(Len(disco.v)), " releases):">> >>
                  \o Flatten([j \in 1..Len(Take(disco.v, DiscographyLimit)) |->
                                 ReleaseLines(disco.v[j].v)])
             ELSE <<>>)
         \o (IF Truthy(links)
             THEN << <<"\nExternal Links:">> >>
                  \o [j \in 1..Len(links.v) |->
                        <<"  - ">> \o ToText(links.v[j].v["name"]) \o <<": ">>
                          \o ToText(links.v[j].v["url"])]
             ELSE <<>>)
         \o << <<"\nURL: ">> \o ToText(Get(artist, "url", Str(<<>>))) >>)

\* track["description"][:500] raises TypeError unless the value can be sliced
Sliceable(x) == x.t \in {"str", "list"}

\* The description shown for a track: desc = track["description"][:500]
TrackDescription(desc) ==
    IF desc.t = "str" THEN Take(desc.v, DescriptionLimit) ELSE ToText(desc)

\* The bandcamp_get_track branch of call_tool, after the client returned.
FormatTrack(track) ==
    LET desc == Get(track, "description", None)
    IN IF Truthy(desc) /\ ~Sliceable(desc) THEN FormatRaise("TypeError")
       ELSE Lines(
         << <<"Track: ">> \o ToText(Get(track, "title", Str(<<"Unknown">>))),
            <<"Artist: ">> \o ToText(Get(track, "artist", Str(<<"Unknown">>))) >>
         \o (IF Truthy(Get(track, "album", None))
             THEN << <<"Album: ">> \o ToText(track["album"]) >> ELSE <<>>)
         \o (IF Truthy(Get(track, "duration", None))
             THEN << <<"Duration: ">> \o ToText(track["duration"]) >> ELSE <<>>)
         \o (IF Truthy(Get(track, "release_date", None))
             THEN << <<"Released: ">> \o ToText(track["release_date"]) >> ELSE <<>>)
         \o (IF Truthy(Get(track, "price", None)) THEN <<PriceLine(track)>> ELSE <<>>)
         \o (IF Truthy(Get(track, "tags", None))
             THEN << <<"Tags: ">> \o JoinTexts(track["tags"].v) >> ELSE <<>>)
         \o (IF Truthy(Get(track, "lyrics", None))
             THEN << <<"\nLyrics:\n">> \o Truncated(track["lyrics"].v, LyricsLimit) >>
             ELSE <<>>)
         \o (IF Truthy(desc)
             THEN << <<"\nDescription:\n">> \o TrackDescription(desc) >> ELSE <<>>)
         \o << <<"\nURL: ">> \o ToText(Get(track, "url", Str(<<>>))) >>)

\* The lines of one album of a tag or discovery listing.
ListedAlbumLines(album, withGenre) ==
    << ToText(Get(album, "title", Str(<<"Unknown">>))) >>
    \o (IF Truthy(Get(album, "artist", None))
        THEN << <<"  by ">> \o ToText(album["artist"]) >> ELSE <<>>)
    \o (IF withGenre /\ Truthy(Get(album, "genre", None))
        THEN << <<"  Genre: ">> \o ToText(album["genre"]) >> ELSE <<>>)
    \o << <<"  URL: ">> \o ToText(Get(album, "url", Str(<<>>))), <<>> >>

\* The bandcamp_browse_tag branch of call_tool, after the client returned.
FormatTag(results, tag) ==
    LET albums == Get(results, "albums", List(<<>>)).v
    IN IF albums = <<>>
       THEN Lines(<< <<"No albums found for tag '">> \o tag \o <<"'.">> >>)
       ELSE Lines(<< <<"Tag: ">> \o ToText(results["tag"]) \o <<" (sort: ">>
                       \o ToText(results["sort"]) \o <<", page ">>
                       \o ToText(results["page"]) \o <<")\n">>,
                     <<"Found ", ToString(Len(albums)), " albums:\n">> >>
                  \o Flatten([j \in 1..Len(albums) |->
                                 ListedAlbumLines(albums[j].v, FALSE)]))

\* The bandcamp_discover branch of call_tool, after the client returned.
FormatDiscover(results) ==
    LET albums == Get(results, "albums", List(<<>>)).v
        genre_str == IF Truthy(Get(results, "genre", None))
                     THEN ToText(results["genre"]) ELSE <<"all genres">>
    IN IF albums = <<>> THEN Lines(<< <<"No albums found in discovery.">> >>)
       ELSE Lines(<< <<"Discover: ">> \o genre_str \o <<" (sort: ">>
                       \o ToText(results["sort"]) \o <<")\n">>,
                     <<"Found ", ToString(Len(albums)), " albums:\n">> >>
                  \o Flatten([j \in 1..Len(albums) |->
                                 ListedAlbumLines(albums[j].v, TRUE)]))

\* [TextContent(type="text", text=...)]
TextContent(text) == << [type |-> "text", text |-> text] >>

\* except Exception as e: return [TextContent(type="text", text=f"Error: {str(e)}")]
ErrorContent(e) == TextContent(<<"Error: ", e>>)

\* ------------------------------------------------- pages the site can serve
\* Structured data of an album page with every field well formed.
GoodTrack(pos, name) ==
    Dict([position |-> Num(pos),
          item |-> Dict(("@id" :> Str(<<"https://a.bandcamp.com", "/track/", name>>))
                        @@ [name |-> Str(<<name>>),
                            duration |-> Str(IF pos = 1
                                             THEN <<"P", "T", "3", "M", "4", "5", "S">>
                                             ELSE <<"P", "T", "1", "0", "M", "5", "S">>)])])

LdAlbumFull ==
    ("@id" :> Str(<<"https://a.bandcamp.com", "/album/ld">>))
    @@ [name |-> Str(<<"LdTitle">>),
        url |-> Str(<<"https://a.bandcamp.com", "/album/ld">>),
        byArtist |-> Dict([name |-> Str(<<"LdArtist">>)]),
        description |-> Str(<<"about", " ", "it">>),
        datePublished |-> Str(<<"2020">>),
        image |-> Str(<<"https://a.bandcamp.com", "/img.jpg">>),
        numTracks |-> Num(2),
        track |-> Dict([itemListElement |-> List(<<GoodTrack(1, "one"), GoodTrack(2, "two")>>)]),
        offers |-> Dict([price |-> Str(<<"7.00">>), priceCurrency |-> Str(<<"USD">>)]),
        publisher |-> Dict(("@id" :> Str(<<"https://b.bandcamp.com">>))
                           @@ [name |-> Str(<<"LdLabel">>)])]

\* Structured data of a track page with every field well formed.
LdTrackFull ==
    ("@id" :> Str(<<"https://a.bandcamp.com", "/track/ld">>))
    @@ [name |-> Str(<<"LdTitle">>),
        url |-> Str(<<"https://a.bandcamp.com", "/track/ld">>),
        byArtist |-> Dict([name |-> Str(<<"LdArtist">>)]),
        duration |-> Str(<<"P", "T", "3", "M", "4", "5", "S">>),
        description |-> Str(<<"about", " ", "it">>),
        datePublished |-> Str(<<"2020">>),
        image |-> Str(<<"https://a.bandcamp.com", "/img.jpg">>),
        inAlbum |-> Dict(("@id" :> Str(<<"https://a.bandcamp.com", "/album/ld">>))
                         @@ [name |-> Str(<<"LdAlbum">>)]),
        offers |-> Dict([price |-> Str(<<"1.00">>), priceCurrency |-> Str(<<"EUR">>)])]

\* Values of the wrong type or empty, as a page may carry under any key.
OddValues ==
    {Str(<<"x">>), Str(<<>>), List(<<>>), List(<<Num(1)>>), Num(0), Num(5), None,
     Dict(EmptyDict)}

\* Further values of the track list of an album.
OddTrackLists ==
    {Dict([itemListElement |-> x]) :
        x \in {Str(<<"a", "b">>), Num(3), None, Dict(EmptyDict), Dict([k |-> Num(1)]),
               List(<<Str(<<"x">>)>>), List(<<Dict([item |-> Str(<<"x">>)])>>),
               List(<<Dict(EmptyDict)>>),
               List(<<Dict([position |-> Num(1), item |-> Dict([duration |-> Num(225)])])>>),
               List(<<GoodTrack(2, "two"), Num(1)>>)}}

AlbumKeys == {"name", "byArtist", "description", "datePublished", "image", "numTracks",
              "track", "offers", "publisher"}

TrackKeys == {"name", "byArtist", "duration", "description", "datePublished", "image",
              "inAlbum", "offers"}

\* The objects a structured-data block holds: a base with one key changed or
\* removed.
Variants(base, keys, odd) ==
    {base} \cup {Put(base, k, v) : k \in keys, v \in odd} \cup {Without(base, k) : k \in keys}

LdAlbumObjects ==
    Variants(LdAlbumFull, AlbumKeys, OddValues) \cup Variants(EmptyDict, AlbumKeys, OddValues)
    \cup {Put(LdAlbumFull, "track", v) : v \in OddTrackLists}
    \cup {Put(LdAlbumFull, "offers", Dict([price |-> Str(<<"7.00">>)])),
          Put(LdAlbumFull, "byArtist", Dict([name |-> Str(<<>>)]))}

Text(txt) == Elem(txt, NoAttrs)

\* A text of n characters.
LongText(n) == [j \in 1..n |-> "x"]

\* An element whose text is exactly as long as limit, or one longer.
AroundLimit(limit) == {Text(LongText(limit)), Text(LongText(limit + 1))}

LdTrackObjects ==
    Variants(LdTrackFull, TrackKeys, OddValues) \cup Variants(EmptyDict, TrackKeys, OddValues)
    \cup {Put(LdTrackFull, "description", Str(el.text)) : el \in AroundLimit(DescriptionLimit)}

\* The script elements a page can carry.
Scripts(objects) ==
    {Script("absent", None), Script("empty", None), Script("invalid", None)}
    \cup {Script("json", v) : v \in {List(<<>>), Str(<<"x">>), Num(1), None}}
    \cup {Script("json", Dict(o)) : o \in objects}

\* Markup of an album page outside the structured data.
AlbumMarkup ==
    [title : {NoElem, Text(<<" ", "SelTitle", " ">>), Text(<<" ">>)},
     artist : {NoElem, Text(<<"SelArtist">>), Text(<<>>)},
     rest : {[tags |-> <<>>, about |-> NoElem, credits |-> NoElem],
             [tags |-> <<Text(<<"rock">>), Text(<<" ", "pop">>)>>,
              about |-> Text(<<"a", "b", " ">>), credits |-> Text(<<"by", " ", "me">>)]}]

AlbumPages ==
    {[ld |-> sc, title |-> m.title, artist |-> m.artist, tags |-> m.rest.tags,
      about |-> m.rest.about, credits |-> m.rest.credits] :
        sc \in Scripts(LdAlbumObjects), m \in AlbumMarkup}
    \cup {[ld |-> sc, title |-> NoElem, artist |-> NoElem, tags |-> <<>>,
           about |-> a, credits |-> c] :
            sc \in {Script("absent", None), Script("json", Dict(LdAlbumFull))},
            a \in AroundLimit(AboutLimit), c \in AroundLimit(CreditsLimit)}

TrackPages ==
    {[ld |-> sc, tags |-> m.tags, lyrics |-> m.lyrics] :
        sc \in Scripts(LdTrackObjects),
        m \in {[tags |-> <<>>, lyrics |-> NoElem],
               [tags |-> <<Text(<<"rock">>)>>, lyrics |-> Text(<<"la", " ", "la">>)]}}
    \cup {[ld |-> sc, tags |-> <<>>, lyrics |-> l] :
            sc \in {Script("absent", None), Script("json", Dict(LdTrackFull))},
            l \in AroundLimit(LyricsLimit)}

\* Image elements: with src, lazily loaded (src empty or missing), bare.
Images ==
    {NoElem,
     Elem(<<>>, [src |-> <<"a.jpg">>]),
     Elem(<<>>, ("data-original" :> <<"lazy.jpg">>) @@ [src |-> <<>>]),
     Elem(<<>>, "data-original" :> <<"lazy.jpg">>)}

Link(href) == Elem(<<>>, [href |-> href])
Heading(txt, href) == Elem(txt, [href |-> href])

\* The .searchresult blocks of a search page.
SearchBlocks ==
    {[itemtype |-> Text(<<" ", "ALBUM", " ">>), heading |-> Heading(<<"One">>, <<"https://a.bandcamp.com", "/album/x">>),
      subhead |-> Text(<<"by", " ", "A">>), img |-> Elem(<<>>, [src |-> <<"a.jpg">>]),
      tags |-> <<Text(<<"rock">>), Text(<<"pop">>)>>,
      released |-> Text(<<"released", " ", "2020">>), genre |-> Text(<<"genre:", " ", "rock">>)],
     [itemtype |-> Text(<<"ARTIST">>), heading |-> Heading(<<" ", "Two", " ">>, <<>>),
      subhead |-> NoElem, img |-> Elem(<<>>, "data-original" :> <<"lazy.jpg">>),
      tags |-> <<>>, released |-> Text(<<"re-", "released", " ", "2021">>),
      genre |-> Text(<<"genre:", " ", "sub", "genre:", " ", "dub">>)],
     [itemtype |-> Text(<<"ALBUM">>), heading |-> NoElem,
      subhead |-> Text(<<"by", " ", "B">>), img |-> Elem(<<>>, [src |-> <<"b.jpg">>]),
      tags |-> <<Text(<<"jazz">>)>>, released |-> Text(<<"2019">>), genre |-> Text(<<"jazz">>)],
     [itemtype |-> NoElem, heading |-> Heading(<<" ">>, <<"https://a.bandcamp.com", "/album/y">>),
      subhead |-> NoElem, img |-> NoElem, tags |-> <<>>,
      released |-> Text(<<"re-", "released", " ", "2021">>),
      genre |-> Text(<<"sub", "genre:", " ", "dub">>)],
     [itemtype |-> Text(<<"TRACK">>), heading |-> Heading(<<>>, <<>>),
      subhead |-> NoElem, img |-> NoElem, tags |-> <<>>,
      released |-> NoElem, genre |-> NoElem]}

\* What the blocks of the artist, tag and discovery listings share: the first
\* link, the title element, the image.
Cards ==
    {[link |-> Link(<<"https://a.bandcamp.com", "/album/x">>), title |-> Text(<<"One">>),
      img |-> Elem(<<>>, [src |-> <<"a.jpg">>])],
     [link |-> NoElem, title |-> Text(<<" ", "Two", " ">>),
      img |-> Elem(<<>>, ("data-original" :> <<"lazy.jpg">>) @@ [src |-> <<>>])],
     [link |-> Link(<<"/album/y">>), title |-> NoElem,
      img |-> Elem(<<>>, "data-original" :> <<"lazy.jpg">>)],
     [link |-> Link(<<>>), title |-> Text(<<" ">>), img |-> NoElem],
     [link |-> Link(<<"/album/z">>), title |-> Text(<<>>),
      img |-> Elem(<<>>, [src |-> <<"b.jpg">>])],
     [link |-> Link(<<"/album/w">>), title |-> Text(<<"One">>),
      img |-> Elem(<<>>, "data-original" :> <<"lazy.jpg">>)]}

\* The .music-grid-item blocks of an artist page.
GridBlocks == Cards

\* The .item_list .item blocks of a tag page.
TagBlocks ==
    {[link |-> c.link, title |-> c.title, img |-> c.img,
      artist |-> IF c.link.e THEN Text(<<"A">>) ELSE NoElem] : c \in Cards}

\* The .discover-item blocks of a discovery page.
DiscoverBlocks ==
    {[link |-> c.link, title |-> c.title, img |-> c.img,
      artist |-> IF c.link.e THEN Text(<<"A">>) ELSE NoElem,
      genre |-> IF c.img.e THEN Text(<<" ", "rock">>) ELSE NoElem] : c \in Cards}

\* Sequences of at most MaxItems blocks.
UpTo(blocks) == UNION {[1..n -> blocks] : n \in 0..MaxItems}

SearchPages == {[items |-> its] : its \in UpTo(SearchBlocks)}
TagPages == {[items |-> its] : its \in UpTo(TagBlocks)}
DiscoverPages == {[items |-> its] : its \in UpTo(DiscoverBlocks)}

ArtistPages ==
    {[name |-> h.name, location |-> h.location, bio |-> h.bio, links |-> h.links,
      items |-> its] :
        h \in {[name |-> NoElem, location |-> NoElem, bio |-> NoElem, links |-> <<>>],
               [name |-> Text(<<" ", "Band">>), location |-> Text(<<"Oslo">>),
                bio |-> Text(<<"we", " ", "play">>),
                links |-> <<Heading(<<"site">>, <<"https://b.bandcamp.com">>)>>]},
        its \in UpTo(GridBlocks)}
    \cup {[name |-> Text(<<"Band">>), location |-> NoElem, bio |-> b, links |-> <<>>,
           items |-> <<>>] : b \in AroundLimit(BioLimit)}

\* ------------------------------------------------------------------ inputs
Urls == {<<"https://a.bandcamp.com", "/album/x">>, <<"https://b.bandcamp.com", "/music">>}
Queries == {<<"jazz">>, <<"lo", " ", "fi", "&", "b">>}
ItemTypes == {"all", "album", "artist", "track", "label", "fan", "vinyl"}
PageNumbers == {1, 2}
TagNames == {<<"ambient">>, <<"hip", " ", "hop">>}
TagSorts == {<<"pop">>, <<"new">>, <<"rec">>, <<"date">>, <<>>}
Genres == {<<>>, <<"ambient">>, <<"r", "&", "b">>}
Subgenres == {<<>>, <<"drone">>}
DiscoverSorts == {<<"top">>, <<"new">>, <<"rec">>, <<"best">>, <<>>}
Formats == {<<"all">>, <<"vinyl">>}
Locations == {0, 1}

Ops == {"search", "get_album", "get_artist", "get_track", "get_tag_page", "discover"}

\* The parameters a caller of the client can pass to each operation.
ClientParams(op) ==
    CASE op = "search" -> [query : Queries, item_type : ItemTypes, page : PageNumbers]
      [] op = "get_tag_page" -> [tag : TagNames, sort : TagSorts, page : PageNumbers]
      [] op = "discover" -> [genre : Genres, subgenre : Subgenres, sort : DiscoverSorts,
                             format : Formats, location : Locations]
      [] OTHER -> [url : Urls]

\* Tool names of list_tools, and one that is none of them.
ToolOps == [bandcamp_search |-> "search", bandcamp_get_album |-> "get_album",
            bandcamp_get_artist |-> "get_artist", bandcamp_get_track |-> "get_track",
            bandcamp_browse_tag |-> "get_tag_page", bandcamp_discover |-> "discover"]
ToolNames == DOMAIN ToolOps \cup {"bandcamp_buy"}

Restrict(f, ks) == [k \in ks |-> f[k]]

\* The arguments objects a tool call can carry: any part of a full one.
ToolArguments(name) ==
    LET full == CASE name = "bandcamp_search" ->
                       {[query |-> <<"jazz">>, item_type |-> "album", page |-> 2],
                        [query |-> <<"lo", " ", "fi", "&", "b">>, item_type |-> "vinyl", page |-> 1]}
                  [] name = "bandcamp_browse_tag" ->
                       {[tag |-> <<"ambient">>, sort |-> <<"new">>, page |-> 2],
                        [tag |-> <<"hip", " ", "hop">>, sort |-> <<"date">>, page |-> 1]}
                  [] name = "bandcamp_discover" ->
                       {[genre |-> <<"ambient">>, subgenre |-> <<"drone">>,
                         sort |-> <<"new">>, format |-> <<"vinyl">>],
                        [genre |-> <<"r", "&", "b">>, subgenre |-> <<>>,
                         sort |-> <<"best">>, format |-> <<"all">>]}
                  [] OTHER -> {[url |-> u] : u \in Urls}
    IN UNION {{Restrict(f, ks) : ks \in SUBSET DOMAIN f} : f \in full}

\* The argument call_tool reads with arguments[...], which must be there.
RequiredArg(name) ==
    CASE name = "bandcamp_search" -> "query"
      [] name = "bandcamp_browse_tag" -> "tag"
      [] name = "bandcamp_discover" -> "genre"
      [] OTHER -> "url"

\* The parameters call_tool passes to the client, defaults filled in.
ToolParams(name, arguments) ==
    CASE name = "bandcamp_search" ->
           [query |-> arguments["query"],
            item_type |-> Get(arguments, "item_type", "all"),
            page |-> Get(arguments, "page", 1)]
      [] name = "bandcamp_browse_tag" ->
           [tag |-> arguments["tag"],
            sort |-> Get(arguments, "sort", <<"pop">>),
            page |-> Get(arguments, "page", 1)]
      [] name = "bandcamp_discover" ->
           [genre |-> Get(arguments, "genre", <<>>),
            subgenre |-> Get(arguments, "subgenre", <<>>),
            sort |-> Get(arguments, "sort", <<"top">>),
            format |-> Get(arguments, "format", <<"all">>),
            location |-> 0]
      [] OTHER -> [url |-> arguments["url"]]

\* arguments[...] raises KeyError
MissingArg(name, arguments) ==
    name # "bandcamp_discover" /\ RequiredArg(name) \notin DOMAIN arguments

\* The URL the operation fetches.
RequestUrl(op, p) ==
    CASE op = "search" -> SearchUrl(p.query, p.item_type, p.page)
      [] op = "get_tag_page" -> TagUrl(p.tag, p.sort, p.page)
      [] op = "discover" -> DiscoverUrl(p.genre, p.subgenre, p.sort, p.format, p.location)
      [] OTHER -> p.url

\* The pages a fetch for the operation can return.
PagesOf(op) ==
    CASE op = "search" -> SearchPages
      [] op = "get_album" -> AlbumPages
      [] op = "get_artist" -> ArtistPages
      [] op = "get_track" -> TrackPages
      [] op = "get_tag_page" -> TagPages
      [] OTHER -> DiscoverPages

\* The operation's code after its fetch returned doc.
Extract(op, p, doc) ==
    CASE op = "search" -> search(p.query, p.item_type, p.page, doc)
      [] op = "get_album" -> get_album(p.url, doc)
      [] op = "get_artist" -> get_artist(p.url, doc)
      [] op = "get_track" -> get_track(p.url, doc)
      [] op = "get_tag_page" -> get_tag_page(p.tag, p.sort, p.page, doc)
      [] OTHER -> discover(p.genre, p.subgenre, p.sort, doc)

\* The branch of call_tool that formats the operation's record.
Format(op, p, rec) ==
    CASE op = "search" -> FormatSearch(rec)
      [] op = "get_album" -> FormatAlbum(rec)
      [] op = "get_artist" -> FormatArtist(rec)
      [] op = "get_track" -> FormatTrack(rec)
      [] op = "get_tag_page" -> FormatTag(rec, p.tag)
      [] OTHER -> FormatDiscover(rec)

\* What call_tool returns once the client's coroutine ended with out.
Respond(op, p, out) ==
    IF out.exc # "none" THEN ErrorContent(out.exc)
    ELSE LET f == Format(op, p, out.rec)
         IN IF f.exc # "none" THEN ErrorContent(f.exc)
            ELSE TextContent(Join(f.lines, "\n"))

\* httpx failures and raise_for_status()
FetchErrors == {"ConnectError", "ReadTimeout", "HTTPStatusError"}

\* ------------------------------------------------------------------- state
VARIABLES
    client,    \* the module-level BandcampClient: user agent and headers
    pc,        \* per invocation: "idle", "fetching" (awaiting the GET), "done"
    call,      \* per invocation: how it was entered, the operation, its parameters
    target,       \* per invocation: the URL requested
    fetches,   \* per invocation: GET requests issued by _fetch
    fetched,      \* per invocation: the document the fetch returned
    outcome,   \* per invocation: the record the operation returned, or its exception
    response   \* per invocation: what call_tool returned

vars == <<client, pc, call, target, fetches, fetched, outcome, response>>

Inv == 1..MaxInv

NoCall == [via |-> "none", op |-> "none", p |-> EmptyDict]
NoOutcome == [exc |-> "unset", rec |-> EmptyDict]
NoPage == EmptyDict

\* BandcampClient(): __init__ with the default user agent
NewClient(user_agent) ==
    [user_agent |-> user_agent,
     headers |-> ("User-Agent" :> user_agent)
                 @@ ("Accept" :> "text/html,application/xhtml+xml,application/xml;q=0.9,*/*;q=0.8")
                 @@ ("Accept-Language" :> "en-US,en;q=0.5")]

\* main(): init_bandcamp_client(), then the server waits for tool calls
Init ==
    /\ client = NewClient("BandcampMCP/1.0")
    /\ pc = [i \in Inv |-> "idle"]
    /\ call = [i \in Inv |-> NoCall]
    /\ target = [i \in Inv |-> <<>>]
    /\ fetches = [i \in Inv |-> 0]
    /\ fetched = [i \in Inv |-> NoPage]
    /\ outcome = [i \in Inv |-> NoOutcome]
    /\ response = [i \in Inv |-> <<>>]

\* Begin with the requested URL kept in one place for all the invocations
\* that are awaiting their GET.
BeginShared(i, via, op, p) ==
    /\ pc' = [pc EXCEPT ![i] = "fetching"]
    /\ call' = [call EXCEPT ![i] = [via |-> via, op |-> op, p |-> p]]
    /\ target' = [j \in Inv |-> IF j = i \/ pc[j] = "fetching" THEN RequestUrl(op, p)
                                ELSE target[j]]
    /\ fetches' = [fetches EXCEPT ![i] = 1]
    /\ UNCHANGED <<client, fetched, outcome, response>>

\* The operation runs up to its await of the GET.
Begin(i, via, op, p) ==
    /\ pc' = [pc EXCEPT ![i] = "fetching"]
    /\ call' = [call EXCEPT ![i] = [via |-> via, op |-> op, p |-> p]]
    /\ target' = [target EXCEPT ![i] = RequestUrl(op, p)]
    /\ fetches' = [fetches EXCEPT ![i] = 1]
    /\ UNCHANGED <<client, fetched, outcome, response>>

\* call_tool ends before any operation runs: an unknown tool, or KeyError
\* on a missing argument.
EndEarly(i, name, content, out) ==
    /\ pc' = [pc EXCEPT ![i] = "done"]
    /\ call' = [call EXCEPT ![i] = [via |-> "tool", op |-> name, p |-> EmptyDict]]
    /\ outcome' = [outcome EXCEPT ![i] = out]
    /\ response' = [response EXCEPT ![i] = content]
    /\ UNCHANGED <<client, target, fetches, fetched>>

\* One tool call at a time: the caller awaits each response.
Quiet == \A j \in Inv : pc[j] = "idle"

\* call_tool(name, arguments) up to the first await
ToolCall(i) ==
    /\ Quiet
    /\ \E name \in ToolNames :
         \E arguments \in ToolArguments(name) :
            IF name \notin DOMAIN ToolOps
            THEN EndEarly(i, name, TextContent(<<"Unknown tool: ", name>>), NoOutcome)
            ELSE IF MissingArg(name, arguments)
            THEN EndEarly(i, name, ErrorContent("KeyError"), NoOutcome)
            ELSE Begin(i, "tool", ToolOps[name], ToolParams(name, arguments))

\* A direct call of one of the client's coroutines, up to its await.
ClientCall(i) ==
    /\ Quiet
    /\ \E op \in Ops : \E p \in ClientParams(op) : Begin(i, "client", op, p)

\* The coroutine resumes with out and runs to its end; call_tool, when it is
\* the caller, formats the result.
Finish(i, doc, out) ==
    /\ pc' = [pc EXCEPT ![i] = "done"]
    /\ fetched' = [fetched EXCEPT ![i] = doc]
    /\ outcome' = [outcome EXCEPT ![i] = out]
    /\ response' = [response EXCEPT ![i] =
                      IF call[i].via = "tool" THEN Respond(call[i].op, call[i].p, out)
                      ELSE <<>>]
    /\ UNCHANGED <<client, call, target, fetches>>

\* _fetch returns response.text
FetchOk(i) ==
    /\ pc[i] = "fetching"
    /\ \E doc \in PagesOf(call[i].op) :
         Finish(i, doc, Extract(call[i].op, call[i].p, doc))

\* A _fetch that tries the GET a second time before it gives up.
FetchFailRetry(i) ==
    /\ pc[i] = "fetching"
    /\ IF fetches[i] < 2
       THEN /\ fetches' = [fetches EXCEPT ![i] = @ + 1]
            /\ UNCHANGED <<client, pc, call, target, fetched, outcome, response>>
       ELSE \E e \in FetchErrors : Finish(i, NoPage, Raise(e))

\* _fetch raises: the GET failed, timed out, or raise_for_status() raised
FetchFail(i) ==
    /\ pc[i] = "fetching"
    /\ \E e \in FetchErrors : Finish(i, NoPage, Raise(e))

\* The caller takes the result; the invocation's locals are gone.
Return(i) ==
    /\ pc[i] = "done"
    /\ pc' = [pc EXCEPT ![i] = "idle"]
    /\ call' = [call EXCEPT ![i] = NoCall]
    /\ target' = [target EXCEPT ![i] = <<>>]
    /\ fetches' = [fetches EXCEPT ![i] = 0]
    /\ fetched' = [fetched EXCEPT ![i] = NoPage]
    /\ outcome' = [outcome EXCEPT ![i] = NoOutcome]
    /\ response' = [response EXCEPT ![i] = <<>>]
    /\ UNCHANGED client

Next ==
    \E i \in Inv :
        \/ ToolCall(i)
        \/ ClientCall(i)
        \/ FetchOk(i)
        \/ FetchFail(i)
        \/ Return(i)

Spec == Init /\ [][Next]_vars

\* ------------------------------------------------- concurrent invocations
\* The event loop runs any number of coroutines of the one module-level
\* client; each is suspended at the await of its own GET.

\* The calls made concurrently: a few parameters of every operation.
ConcParams ==
    [op \in Ops |->
        CASE op = "search" -> {[query |-> <<"jazz">>, item_type |-> "all", page |-> 1]}
          [] op = "get_tag_page" -> {[tag |-> <<"ambient">>, sort |-> <<"pop">>, page |-> 1]}
          [] op = "discover" -> {[genre |-> <<"ambient">>, subgenre |-> <<>>, sort |-> <<"top">>,
                                  format |-> <<"all">>, location |-> 0]}
          [] op = "get_album" -> [url : Urls]
          [] OTHER -> {[url |-> <<"https://a.bandcamp.com", "/album/x">>]}]

\* The album operation is entered through call_tool as well as directly.
ConcVia(op, p) ==
    IF op = "get_album" /\ p.url = <<"https://a.bandcamp.com", "/album/x">>
    THEN {"client", "tool"}
    ELSE {"client"}

\* The pages the concurrent fetches return: two of every operation's pages.
ConcPages ==
    [op \in Ops |->
        CASE op = "get_album" ->
               {d \in AlbumPages :
                   /\ d.ld \in {Script("absent", None), Script("json", Dict(LdAlbumFull))}
                   /\ d.title = Text(<<" ", "SelTitle", " ">>)
                   /\ d.artist = Text(<<"SelArtist">>)
                   /\ d.about = NoElem}
          [] op = "get_track" ->
               {d \in TrackPages :
                   /\ d.ld \in {Script("absent", None), Script("json", Dict(LdTrackFull))}
                   /\ d.lyrics = NoElem}
          [] op = "get_artist" ->
               {d \in ArtistPages : d.items = <<>> /\ d.links = <<>> /\ Len(d.bio.text) <= BioLimit}
          [] op = "search" ->
               {[items |-> <<>>]}
               \cup {[items |-> <<b>>] : b \in {x \in SearchBlocks : x.itemtype = Text(<<"ARTIST">>)}}
          [] op = "get_tag_page" ->
               {[items |-> <<>>]}
               \cup {[items |-> <<b>>] : b \in {x \in TagBlocks : x.link = Link(<<"/album/w">>)}}
          [] OTHER ->
               {[items |-> <<>>]}
               \cup {[items |-> <<b>>] : b \in {x \in DiscoverBlocks : x.link = Link(<<"/album/w">>)}}]

\* A coroutine of the client starts while others may be awaiting their GET.
ConcCall(i) ==
    /\ pc[i] = "idle"
    /\ \E op \in Ops : \E p \in ConcParams[op] : \E via \in ConcVia(op, p) : Begin(i, via, op, p)

\* The GET of one of the suspended coroutines returns; it runs to its end.
ConcFetchOk(i) ==
    /\ pc[i] = "fetching"
    /\ \E doc \in ConcPages[call[i].op] :
         Finish(i, doc, Extract(call[i].op, call[i].p, doc))

NextConc ==
    \E i \in Inv :
        \/ ConcCall(i)
        \/ ConcFetchOk(i)
        \/ FetchFail(i)
        \/ Return(i)

SpecConc == Init /\ [][NextConc]_vars

\* ----------------------------------------------------- reading the state
\* The invocation ended and its fetch had returned a document.
Fetched(i) == pc[i] = "done" /\ DOMAIN fetched[i] # {}

\* The invocation ended and its fetch had failed.
FetchFailed(i) == pc[i] = "done" /\ call[i].op \in Ops /\ DOMAIN fetched[i] = {}

\* The invocation ended with a record.
Returned(i) == Fetched(i) /\ outcome[i].exc = "none"

\* The structured-data block of the fetched page parsed to a JSON object.
LdIsObject(doc) == doc.ld.kind = "json" /\ doc.ld.value.t = "dict"

\* The block is there and is not the JSON text of an object.
LdUnparseable(doc) ==
    \/ doc.ld.kind \in {"empty", "invalid"}
    \/ doc.ld.kind = "json" /\ doc.ld.value.t # "dict"

\* The text after the first "?" of a URL.
RECURSIVE QueryOf(_)
QueryOf(u) ==
    IF u = <<>> THEN <<>> ELSE IF Head(u) = "?" THEN Tail(u) ELSE QueryOf(Tail(u))

\* s.split(sep) of a non-empty text
RECURSIVE SplitAcc(_, _, _)
SplitAcc(s, sep, cur) ==
    IF s = <<>> THEN <<cur>>
    ELSE IF Head(s) = sep THEN <<cur>> \o SplitAcc(Tail(s), sep, <<>>)
    ELSE SplitAcc(Tail(s), sep, Append(cur, Head(s)))

\* The key=value parts of the query of a URL, as a URL parser sees them.
QueryParts(u) == IF QueryOf(u) = <<>> THEN <<>> ELSE SplitAcc(QueryOf(u), "&", <<>>)

\* The keys of the query parameters of a URL, in order.
ParamKeys(u) == [j \in 1..Len(QueryParts(u)) |-> Head(QueryParts(u)[j])]

HasParam(u, key) == \E j \in 1..Len(QueryParts(u)) : Head(QueryParts(u)[j]) = key

\* The text after "key=" of the first parameter named key.
ParamValue(u, key) ==
    LET parts == QueryParts(u)
        j == CHOOSE j \in 1..Len(parts) :
                /\ Head(parts[j]) = key
                /\ \A k \in 1..(j - 1) : Head(parts[k]) # key
    IN SubSeq(parts[j], 3, Len(parts[j]))

\* ------------------------------------------------------------------ claims

\* C1: for getAlbum and getTrack, when the fetch succeeded and the page's
\* structured-data block parsed to a JSON object, the operation returns a
\* record whatever nested values the object holds (a malformed nested value
\* never aborts the invocation).
C1_MalformedNestedValueAbsorbed ==
    \A i \in Inv :
        (Fetched(i) /\ call[i].op \in {"get_album", "get_track"} /\ LdIsObject(fetched[i]))
            => outcome[i].exc = "none"

\* C2: for getAlbum and getTrack, when the fetch succeeded and the
\* structured-data block is present but is not the JSON text of an object
\* (invalid syntax, empty content, a non-object value), no exception escapes
\* the operation, and an album's title and artist are the selector-based
\* values when those elements exist.
C2_UnparseableBlockTreatedAsAbsent ==
    \A i \in Inv :
        (Fetched(i) /\ call[i].op \in {"get_album", "get_track"}
                    /\ LdUnparseable(fetched[i]))
            => /\ outcome[i].exc = "none"
               /\ (call[i].op = "get_album" /\ fetched[i].title.e)
                     => Get(outcome[i].rec, "title", None) = Str(Strip(fetched[i].title.text))
               /\ (call[i].op = "get_album" /\ fetched[i].artist.e)
                     => Get(outcome[i].rec, "artist", None) = Str(Strip(fetched[i].artist.text))

\* Every value under the keys the extraction reads has the type the
\* schema gives it.
StrValued(d) == \A f \in DOMAIN d : d[f].t = "str"

WellTypedTrackElem(t) ==
    /\ t.t = "dict"
    /\ "position" \in DOMAIN t.v => t.v["position"].t = "num"
    /\ "item" \in DOMAIN t.v => (t.v["item"].t = "dict" /\ StrValued(t.v["item"].v))

WellTyped(data) ==
    /\ \A k \in DOMAIN data \cap {"name", "description", "datePublished", "image",
                                  "duration", "url", "@id"} : data[k].t = "str"
    /\ "numTracks" \in DOMAIN data => data["numTracks"].t = "num"
    /\ \A k \in DOMAIN data \cap {"byArtist", "offers", "publisher", "inAlbum"} :
          data[k].t = "dict" /\ StrValued(data[k].v)
    /\ "track" \in DOMAIN data =>
          /\ data["track"].t = "dict"
          /\ "itemListElement" \in DOMAIN data["track"].v =>
                LET l == data["track"].v["itemListElement"]
                IN l.t = "list" /\ \A j \in 1..Len(l.v) : WellTypedTrackElem(l.v[j])

\* A page whose structured-data block, if any, is an object of well-typed
\* values; the listings carry no such block.
WellFormedPage(op, doc) ==
    op \in {"get_album", "get_track"} =>
        \/ doc.ld.kind = "absent"
        \/ LdIsObject(doc) /\ WellTyped(doc.ld.value.v)

\* call_tool returned exactly one text item that begins with "Error: "
IsErrorResponse(r) == Len(r) = 1 /\ r[1].type = "text" /\ Head(r[1].text) = "Error: "

\* call_tool returned exactly one text item that is no error
IsRecordResponse(r) == Len(r) = 1 /\ r[1].type = "text" /\ Head(r[1].text) # "Error: "

\* C3: every invocation of one of the six operations issues exactly one
\* fetch; when the fetch fails the invocation ends with that single error and
\* no record (call_tool returns exactly one text item beginning "Error: "),
\* the fetch is never retried; when the fetch succeeds on a well-formed page
\* the invocation ends with a record; an error never comes with a record.
C3_OneFetchThenRecordOrError ==
    \A i \in Inv :
        /\ (pc[i] # "idle" /\ call[i].op \in Ops) => fetches[i] = 1
        /\ FetchFailed(i) =>
              /\ outcome[i].exc \in FetchErrors
              /\ DOMAIN outcome[i].rec = {}
              /\ call[i].via = "tool" => IsErrorResponse(response[i])
        /\ (Fetched(i) /\ WellFormedPage(call[i].op, fetched[i])) =>
              /\ outcome[i].exc = "none"
              /\ call[i].via = "tool" => IsRecordResponse(response[i])
        /\ (pc[i] = "done" /\ call[i].op \in Ops /\ outcome[i].exc # "none") =>
              /\ DOMAIN outcome[i].rec = {}
              /\ call[i].via = "tool" => IsErrorResponse(response[i])

\* A tool call whose fetch failed has ended with the single error.
C3_Witness ==
    \E i \in Inv :
        /\ FetchFailed(i)
        /\ call[i].via = "tool"
        /\ outcome[i].exc = "ReadTimeout"
        /\ response[i] = <<[type |-> "text", text |-> <<"Error: ", "ReadTimeout">>]>>

ListingOps == {"search", "get_artist", "get_tag_page", "discover"}

\* The title element of an item block of a listing page.
BlockTitle(op, b) == IF op = "search" THEN b.heading ELSE b.title

\* The block has a title element whose text is not empty after trimming.
Titled(op, b) == BlockTitle(op, b).e /\ Strip(BlockTitle(op, b).text) # <<>>

\* The item blocks of the page that carry a title, in document order.
TitledBlocks(op, doc) ==
    LET T(b) == Titled(op, b) IN SelectSeq(doc.items, T)

\* The listing of a returned record.
Entries(op, rec) ==
    CASE op = "search" -> rec["results"].v
      [] op = "get_artist" -> rec["discography"].v
      [] OTHER -> rec["albums"].v

\* C4: every entry of SearchResponse.results, Artist.discography,
\* TagPage.albums and DiscoverPage.albums has a non-empty title; the entries
\* are exactly the item blocks with a title element whose trimmed text is not
\* empty, in document order.
C4_ListingsHoldExactlyTheTitled ==
    \A i \in Inv :
        (Returned(i) /\ call[i].op \in ListingOps) =>
            LET es == Entries(call[i].op, outcome[i].rec)
                bs == TitledBlocks(call[i].op, fetched[i])
            IN /\ Len(es) = Len(bs)
               /\ \A j \in 1..Len(es) :
                     /\ "title" \in DOMAIN es[j].v
                     /\ es[j].v["title"].t = "str"
                     /\ es[j].v["title"].v # <<>>
                     /\ es[j].v["title"].v = Strip(BlockTitle(call[i].op, bs[j]).text)

\* A tag page with one titled and one untitled item gave exactly one entry.
C4_Witness ==
    \E i \in Inv :
        /\ Returned(i)
        /\ call[i].op = "get_tag_page"
        /\ Len(fetched[i].items) = 2
        /\ Titled("get_tag_page", fetched[i].items[1])
        /\ ~fetched[i].items[2].title.e
        /\ Len(outcome[i].rec["albums"].v) = 1

\* C5: a record returned by getAlbum, getArtist or getTrack has the field
\* url, and its value is the url argument, whatever the page contains.
C5_UrlIsTheArgument ==
    \A i \in Inv :
        (Returned(i) /\ call[i].op \in {"get_album", "get_artist", "get_track"}) =>
            /\ "url" \in DOMAIN outcome[i].rec
            /\ outcome[i].rec["url"] = Str(call[i].p.url)

\* An album whose structured data names another url was returned under the
\* url of the call.
C5_Witness ==
    \E i \in Inv :
        /\ Returned(i)
        /\ call[i].op = "get_album"
        /\ LdIsObject(fetched[i])
        /\ "url" \in DOMAIN fetched[i].ld.value.v
        /\ fetched[i].ld.value.v["url"] # Str(call[i].p.url)
        /\ outcome[i].rec["url"] = Str(call[i].p.url)

\* C6: every record returned by getAlbum has the field num_tracks, and every
\* entry of its tracks has the field position; neither is ever omitted.
C6_NumericFieldsNeverOmitted ==
    \A i \in Inv :
        (Returned(i) /\ call[i].op = "get_album") =>
            /\ "num_tracks" \in DOMAIN outcome[i].rec
            /\ "tracks" \in DOMAIN outcome[i].rec =>
                  \A j \in 1..Len(outcome[i].rec["tracks"].v) :
                      "position" \in DOMAIN outcome[i].rec["tracks"].v[j].v

\* The value the structured data states under key, None when it states none.
Stated(doc, key) == IF LdIsObject(doc) THEN Get(doc.ld.value.v, key, None) ELSE None

\* The artist name the structured data states.
StatedArtist(doc) ==
    LET a == Stated(doc, "byArtist")
    IN IF a.t = "dict" THEN Get(a.v, "name", None) ELSE None

\* The value taken for a field both paths supply: the stated one when it is
\* there and not empty, else the selector's when its element exists.
Preferred(rec, field, stated, el) ==
    /\ Truthy(stated) => Get(rec, field, None) = stated
    /\ (~Truthy(stated) /\ el.e) => Get(rec, field, None) = Str(Strip(el.text))

\* C7: in a record returned by getAlbum, title and artist are the
\* structured-data value when it is present and non-empty and the
\* selector-based value otherwise; and when the structured data has offers
\* with price p and priceCurrency c, the record has price p and currency c.
C7_StructuredDataTakesPrecedence ==
    \A i \in Inv :
        (Returned(i) /\ call[i].op = "get_album") =>
            LET doc == fetched[i]
                rec == outcome[i].rec
                offers == Stated(doc, "offers")
            IN /\ Preferred(rec, "title", Stated(doc, "name"), doc.title)
               /\ Preferred(rec, "artist", StatedArtist(doc), doc.artist)
               /\ (offers.t = "dict" /\ {"price", "priceCurrency"} \subseteq DOMAIN offers.v) =>
                     /\ Get(rec, "price", None) = offers.v["price"]
                     /\ Get(rec, "currency", None) = offers.v["priceCurrency"]

\* An album page stating an empty name and offers of 7.00 USD, with a title
\* element in the markup: the title is the selector's, the price the stated.
C7_Witness ==
    \E i \in Inv :
        /\ Returned(i)
        /\ call[i].op = "get_album"
        /\ Stated(fetched[i], "name") = Str(<<>>)
        /\ fetched[i].title.e
        /\ outcome[i].rec["title"] = Str(<<"SelTitle">>)
        /\ outcome[i].rec["artist"] = Str(<<"LdArtist">>)
        /\ fetched[i].artist.e
        /\ outcome[i].rec["price"] = Str(<<"7.00">>)
        /\ outcome[i].rec["currency"] = Str(<<"USD">>)

\* The keys discover() emits for its inputs when sort is emitted under
\* emitSort: g, s, sort, f, l, each only when its input calls for it.
DiscoverKeys(p, emitSort) ==
    (IF p.genre # <<>> THEN <<"g">> ELSE <<>>)
    \o (IF p.subgenre # <<>> THEN <<"s">> ELSE <<>>)
    \o (IF emitSort THEN <<"sort">> ELSE <<>>)
    \o (IF p.format # <<"all">> THEN <<"f">> ELSE <<>>)
    \o (IF p.location # 0 THEN <<"l">> ELSE <<>>)

\* An invocation of op that has built its URL.
Requested(i, op) == pc[i] # "idle" /\ call[i].op = op

\* C8 as stated: the URL built by discover carries g iff genre is non-empty,
\* s iff subgenre is non-empty, sort iff sort is non-empty and not the
\* default "top", f iff format is not "all", l iff location is not 0, in the
\* order g, s, sort, f, l.
C8_OnlyNonDefaultParameters ==
    \A i \in Inv :
        Requested(i, "discover") =>
            ParamKeys(target[i])
              = DiscoverKeys(call[i].p, call[i].p.sort \notin {<<>>, <<"top">>})

\* C8 amended: the URL built by discover carries g iff genre is non-empty,
\* s iff subgenre is non-empty, sort iff sort is non-empty (the default "top"
\* is emitted as sort=top), f iff format is not "all", l iff location is not
\* 0, in the order g, s, sort, f, l; genre "ambient" with sort "new" and the
\* other inputs at their defaults gives the query g=ambient&sort=new.
C8_OnlyNonEmptyParameters ==
    \A i \in Inv :
        Requested(i, "discover") =>
            /\ ParamKeys(target[i]) = DiscoverKeys(call[i].p, call[i].p.sort # <<>>)
            /\ call[i].p = [genre |-> <<"ambient">>, subgenre |-> <<>>, sort |-> <<"new">>,
                            format |-> <<"all">>, location |-> 0]
                 => QueryOf(target[i]) = <<"g", "=", "ambient", "&", "sort", "=", "new">>

\* discover(genre="ambient", sort="new") has requested ...?g=ambient&sort=new
C8_Witness ==
    \E i \in Inv :
        /\ Requested(i, "discover")
        /\ call[i].p.genre = <<"ambient">>
        /\ call[i].p.sort = <<"new">>
        /\ call[i].p.subgenre = <<>>
        /\ call[i].p.format = <<"all">>
        /\ call[i].p.location = 0
        /\ target[i] = <<BANDCAMP_BASE, "/discover", "?", "g", "=", "ambient", "&",
                         "sort", "=", "new">>

\* C9: the URL built by search carries item_type=a for "album", item_type=b
\* for "artist" and for "label", item_type=t for "track", item_type=f for
\* "fan", and no item_type parameter for "all" and for any other value.
C9_ItemTypeCode ==
    \A i \in Inv :
        Requested(i, "search") =>
            LET it == call[i].p.item_type
                code == CASE it = "album" -> <<"a">>
                          [] it \in {"artist", "label"} -> <<"b">>
                          [] it = "track" -> <<"t">>
                          [] it = "fan" -> <<"f">>
                          [] OTHER -> <<>>
            IN IF code = <<>> THEN ~HasParam(target[i], "item_type")
               ELSE /\ HasParam(target[i], "item_type")
                    /\ ParamValue(target[i], "item_type") = code
                    /\ ParamKeys(target[i]) = <<"q", "page", "item_type">>

\* search(query, "label", page) has requested a URL with item_type=b
C9_Witness ==
    \E i \in Inv :
        /\ Requested(i, "search")
        /\ call[i].p.item_type = "label"
        /\ ParamValue(target[i], "item_type") = <<"b">>

KnownTagSorts == {<<"pop">>, <<"new">>, <<"rec">>}
KnownDiscoverSorts == {<<"top">>, <<"new">>, <<"rec">>}

\* C10 as stated: for getTagPage and discover, a sort value outside the
\* operation's known set gives a URL with no sort parameter (no sort_field=,
\* no sort=).
C10_UnknownSortNotEmitted ==
    \A i \in Inv :
        /\ (Requested(i, "get_tag_page") /\ call[i].p.sort \notin KnownTagSorts)
              => ~HasParam(target[i], "sort_field")
        /\ (Requested(i, "discover") /\ call[i].p.sort \notin KnownDiscoverSorts)
              => ~HasParam(target[i], "sort")

\* C10 amended: a sort value outside the known set is passed into the URL as
\* given: getTagPage always emits sort_field=<sort>, and discover emits
\* sort=<sort> for every non-empty sort; only discover with an empty sort
\* emits no sort parameter.
C10_UnknownSortPassedThrough ==
    \A i \in Inv :
        /\ Requested(i, "get_tag_page") =>
              /\ ParamKeys(target[i]) = <<"sort_field", "page">>
              /\ ParamValue(target[i], "sort_field") = call[i].p.sort
        /\ (Requested(i, "discover") /\ call[i].p.sort \notin KnownDiscoverSorts) =>
              IF call[i].p.sort = <<>> THEN ~HasParam(target[i], "sort")
              ELSE /\ HasParam(target[i], "sort")
                   /\ ParamValue(target[i], "sort") = call[i].p.sort

\* getTagPage with the unknown sort "date" has requested ...?sort_field=date
C10_Witness ==
    \E i \in Inv :
        /\ Requested(i, "get_tag_page")
        /\ call[i].p.sort = <<"date">>
        /\ ParamValue(target[i], "sort_field") = <<"date">>

\* The text that follows the token header in a text, up to its end.
After(text, header) ==
    LET k == CHOOSE k \in 1..Len(text) : text[k] = header
    IN SubSeq(text, k + 1, Len(text))

\* The text shows, under header, exactly shown and then ends its line.
Shows(text, header, shown) ==
    /\ \E k \in 1..Len(text) : text[k] = header
    /\ LET rest == After(text, header)
       IN /\ Len(rest) >= Len(shown)
          /\ SubSeq(rest, 1, Len(shown)) = shown
          /\ Len(rest) > Len(shown) => rest[Len(shown) + 1] = "\n"

\* A free text as the claim displays it: whole when it fits the limit, else
\* its first limit characters and the marker "...".
CutWithMarker(full, limit) ==
    IF Len(full) > limit THEN SubSeq(full, 1, limit) \o <<"...">> ELSE full

\* The record holds a non-empty text under field, and the formatted response
\* shows it under header cut to limit with the marker.
ShownCut(i, field, header, limit) ==
    LET v == Get(outcome[i].rec, field, None)
    IN (v.t = "str" /\ v.v # <<>>)
          => Shows(response[i][1].text, header, CutWithMarker(v.v, limit))

\* A tool call of op that returned a record which call_tool formatted.
Formatted(i, op) ==
    /\ Returned(i)
    /\ call[i].via = "tool"
    /\ call[i].op = op
    /\ IsRecordResponse(response[i])

\* C11: when call_tool formats a record, about (500), credits (300), bio
\* (800), lyrics (1000) and description (500) are each shown as the first
\* limit characters followed by "..." when the text is longer than the limit
\* and in full without marker otherwise; the record returned by the
\* operation holds the full text.
C11_LongTextCutWithMarker ==
    \A i \in Inv :
        /\ Formatted(i, "get_album") =>
              /\ ShownCut(i, "about", "\nAbout:\n", 500)
              /\ ShownCut(i, "credits", "\nCredits:\n", 300)
              /\ fetched[i].about.e
                    => outcome[i].rec["about"] = Str(Strip(fetched[i].about.text))
              /\ fetched[i].credits.e
                    => outcome[i].rec["credits"] = Str(Strip(fetched[i].credits.text))
        /\ Formatted(i, "get_artist") =>
              /\ ShownCut(i, "bio", "\nBio:\n", 800)
              /\ fetched[i].bio.e
                    => outcome[i].rec["bio"] = Str(Strip(fetched[i].bio.text))
        /\ Formatted(i, "get_track") =>
              /\ ShownCut(i, "lyrics", "\nLyrics:\n", 1000)
              /\ ShownCut(i, "description", "\nDescription:\n", 500)
              /\ fetched[i].lyrics.e
                    => outcome[i].rec["lyrics"] = Str(Strip(fetched[i].lyrics.text))
              /\ Truthy(Stated(fetched[i], "description"))
                    => outcome[i].rec["description"] = Stated(fetched[i], "description")

\* C12: the record returned by search has pagination.page equal to the page
\* argument and pagination.items equal to the length of results, the number
\* of item blocks left once the blocks without a title are dropped; an empty
\* listing gives items 0.
C12_PaginationCountsResults ==
    \A i \in Inv :
        (Returned(i) /\ call[i].op = "search") =>
            LET rec == outcome[i].rec
                pagination == rec["pagination"].v
            IN /\ pagination["page"] = Num(call[i].p.page)
               /\ pagination["items"] = Num(Len(rec["results"].v))
               /\ pagination["items"] = Num(Len(TitledBlocks("search", fetched[i])))
               /\ fetched[i].items = <<>> => pagination["items"] = Num(0)

\* A search for page 2 returned a page one of whose two item blocks has no
\* title: one result, items 1.
C12_Witness ==
    \E i \in Inv :
        /\ Returned(i)
        /\ call[i].op = "search"
        /\ call[i].p.page = 2
        /\ Len(fetched[i].items) = 2
        /\ Len(TitledBlocks("search", fetched[i])) = 1
        /\ outcome[i].rec["pagination"].v["items"] = Num(1)

\* The text holds sub as a run of consecutive tokens.
Contains(text, sub) ==
    \E k \in 0..(Len(text) - Len(sub)) : SubSeq(text, k + 1, k + Len(sub)) = sub

Digits == {"0", "1", "2", "3", "4", "5", "6", "7", "8", "9"}

\* d is an ISO-8601 duration of the form PT<m>M<s>S.
IsMinutesSeconds(d) ==
    /\ Len(d) >= 6
    /\ d[1] = "P" /\ d[2] = "T" /\ d[Len(d)] = "S"
    /\ \E k \in 4..(Len(d) - 2) :
          /\ d[k] = "M"
          /\ \A j \in (3..(Len(d) - 1)) \ {k} : d[j] \in Digits

\* <m>:<s> of a duration PT<m>M<s>S
MinutesSeconds(d) ==
    LET k == CHOOSE k \in 4..(Len(d) - 2) : d[k] = "M"
    IN SubSeq(d, 3, k - 1) \o <<":">> \o SubSeq(d, k + 1, Len(d) - 1)

\* The durations the structured data of the page states, track by track.
StatedDurations(doc) ==
    LET elems == doc.ld.value.v["track"].v["itemListElement"].v
    IN [j \in 1..Len(elems) |-> elems[j].v["item"].v["duration"]]

\* C13: the album branch of call_tool shows a track duration of the form
\* PT<m>M<s>S as <m>:<s> ("PT3M45S" as "3:45") in the track's line; the
\* duration stored in the returned record is the string the page states,
\* unchanged.
C13_DurationShownAsMinutesSeconds ==
    \A i \in Inv :
        (Returned(i) /\ call[i].op = "get_album" /\ "tracks" \in DOMAIN outcome[i].rec) =>
            LET tracks == outcome[i].rec["tracks"].v
            IN \A j \in 1..Len(tracks) :
                  LET d == tracks[j].v["duration"]
                  IN (d.t = "str" /\ IsMinutesSeconds(d.v)) =>
                        /\ d = StatedDurations(fetched[i])[j]
                        /\ Formatted(i, "get_album") =>
                              Contains(response[i][1].text,
                                       <<"  ">> \o ToText(tracks[j].v["position"])
                                         \o <<". ">> \o tracks[j].v["title"].v \o <<" (">>
                                         \o MinutesSeconds(d.v) \o <<")", "\n">>)

\* The album tool answered for a page stating PT3M45S and PT10M5S: the lines
\* show 3:45 and 10:5, the record keeps both strings.
C13_Witness ==
    \E i \in Inv :
        /\ Formatted(i, "get_album")
        /\ "tracks" \in DOMAIN outcome[i].rec
        /\ Len(outcome[i].rec["tracks"].v) = 2
        /\ outcome[i].rec["tracks"].v[1].v["duration"] = Str(<<"P", "T", "3", "M", "4", "5", "S">>)
        /\ outcome[i].rec["tracks"].v[2].v["duration"] = Str(<<"P", "T", "1", "0", "M", "5", "S">>)
        /\ Contains(response[i][1].text, <<" (", "3", ":", "4", "5", ")">>)
        /\ Contains(response[i][1].text, <<" (", "1", "0", ":", "5", ")">>)

\* The text without the label when it starts with it, else the text as it is.
WithoutPrefix(text, label) ==
    IF StartsWith(text, label) THEN SubSeq(text, Len(label) + 1, Len(text)) ELSE text

\* C14: in a search result, released and genre are the trimmed text of their
\* elements with the literal "released " / "genre: " removed only where it is
\* the prefix of the text; an occurrence elsewhere in the text is kept, and a
\* text that does not begin with the label is stored unchanged.
C14_LabelRemovedOnlyAsPrefix ==
    \A i \in Inv :
        (Returned(i) /\ call[i].op = "search") =>
            LET es == outcome[i].rec["results"].v
                bs == TitledBlocks("search", fetched[i])
            IN \A j \in 1..Len(es) :
                  /\ bs[j].released.e =>
                        es[j].v["released"]
                          = Str(WithoutPrefix(Strip(bs[j].released.text), <<"released", " ">>))
                  /\ bs[j].genre.e =>
                        es[j].v["genre"]
                          = Str(WithoutPrefix(Strip(bs[j].genre.text), <<"genre:", " ">>))

\* The value of an attribute of an element, empty when it has none.
AttrOrEmpty(el, name) == IF name \in DOMAIN el.attrs THEN el.attrs[name] ELSE <<>>

\* The image the claim expects of an img element: src when present and not
\* empty, else the lazy-load attribute data-original.
ExpectedImage(img) ==
    IF AttrOrEmpty(img, "src") # <<>> THEN AttrOrEmpty(img, "src")
    ELSE AttrOrEmpty(img, "data-original")

\* C15: the image of every listing entry (search result, artist discography,
\* tag-page album, discovery album) is the src attribute of the block's img
\* element when present and not empty, and otherwise its data-original
\* attribute.
C15_ImageFallsBackToLazyAttribute ==
    \A i \in Inv :
        (Returned(i) /\ call[i].op \in ListingOps) =>
            LET es == Entries(call[i].op, outcome[i].rec)
                bs == TitledBlocks(call[i].op, fetched[i])
            IN \A j \in 1..Len(es) :
                  bs[j].img.e => es[j].v["image"] = Str(ExpectedImage(bs[j].img))

\* What the invocation holds is what it would hold had it run alone: the URL
\* of its own call while it awaits the GET, and after it the record its own
\* operation extracts from its own fetched document (or the error of its own
\* fetch), formatted by call_tool from that record alone.
RunsAsIfAlone(i) ==
    /\ pc[i] = "idle" =>
          /\ call[i] = NoCall /\ fetched[i] = NoPage
          /\ outcome[i] = NoOutcome /\ response[i] = <<>>
    /\ pc[i] = "fetching" =>
          /\ target[i] = RequestUrl(call[i].op, call[i].p)
          /\ fetches[i] = 1
          /\ fetched[i] = NoPage /\ outcome[i] = NoOutcome /\ response[i] = <<>>
    /\ pc[i] = "done" =>
          /\ target[i] = RequestUrl(call[i].op, call[i].p)
          /\ fetches[i] = 1
          /\ IF fetched[i] = NoPage
             THEN outcome[i].exc \in FetchErrors
             ELSE outcome[i] = Extract(call[i].op, call[i].p, fetched[i])
          /\ response[i] = IF call[i].via = "tool"
                           THEN Respond(call[i].op, call[i].p, outcome[i])
                           ELSE <<>>

\* A step leaves alone every invocation that did not take it, and the client.
StepTouchesOnlyItsOwn ==
    /\ client' = client
    /\ \A i \in Inv :
          pc'[i] = pc[i] =>
              /\ call'[i] = call[i]
              /\ target'[i] = target[i]
              /\ fetches'[i] = fetches[i]
              /\ fetched'[i] = fetched[i]
              /\ outcome'[i] = outcome[i]
              /\ response'[i] = response[i]

\* C16: with any number of invocations of the shared client in progress at
\* once, interleaved at their fetches, every invocation's record equals what
\* the same call returns alone on the same fetched document; no step of one
\* invocation reads or writes what another holds; the client's user agent
\* and headers stay as constructed.
C16_ConcurrentInvocationsAreIsolated ==
    /\ [](client = NewClient("BandcampMCP/1.0") /\ \A i \in Inv : RunsAsIfAlone(i))
    /\ [][StepTouchesOnlyItsOwn]_vars

\* Two album invocations in progress at once, for different URLs, got
\* different documents and ended with different records, each with its own
\* URL.
C16_Witness ==
    \E i, j \in Inv :
        /\ i # j
        /\ pc[i] = "done" /\ pc[j] = "done"
        /\ call[i].op = "get_album" /\ call[j].op = "get_album"
        /\ call[i].p.url # call[j].p.url
        /\ fetched[i] # NoPage /\ fetched[j] # NoPage
        /\ fetched[i] # fetched[j]
        /\ outcome[i].exc = "none" /\ outcome[j].exc = "none"
        /\ outcome[i].rec["url"] = Str(call[i].p.url)
        /\ outcome[j].rec["url"] = Str(call[j].p.url)
        /\ outcome[i].rec["title"] # outcome[j].rec["title"]

====
